---------------------------- MODULE Spec2Model ----------------------------
(***************************************************************************)
(* State-machine model of the two routines of PK-ZigZag-Backtester:        *)
(*   src/lib/zigzag.c            calculate_zigzag   (Spec, SpecLong)       *)
(*   src/lib/enumerate_trades.c  enumerate_trades   (SpecTrades)           *)
(* Arrays keep the 0-based indices of the C source: an array of length n   *)
(* is a function with domain 0..n-1.  Python lists are sequences whose     *)
(* elements are the 0-based indices the code appends.                      *)
(***************************************************************************)
EXTENDS Integers, Sequences, FiniteSets

\* ------------------------------------------------------------- bounds
\* Longest highs/lows series.
MaxLen == 4
\* Prices are the integers 1..MaxPrice.
MaxPrice == 3
\* Longest entry/exit mask.
MaxMask == 4

VARIABLES
    \* calculate_zigzag: the arguments
    highs, lows, epsilon, length,
    \* calculate_zigzag: the two output arrays
    markers_data, turning_points_data,
    \* calculate_zigzag: the locals
    direction, last_extreme_index, last_extreme_value,
    candidate_low_index, candidate_high_index, candidate_low, candidate_high,
    trend_detected, i, pc,
    \* enumerate_trades: the arguments
    entry_data, exit_data, skip_first, entry_len, exit_len,
    \* enumerate_trades: the locals and the two output lists
    entry_list, exit_list, current_position, ti, tpc

zzvars == <<highs, lows, epsilon, length, markers_data, turning_points_data,
            direction, last_extreme_index, last_extreme_value,
            candidate_low_index, candidate_high_index, candidate_low,
            candidate_high, trend_detected, i, pc>>

tevars == <<entry_data, exit_data, skip_first, entry_len, exit_len,
            entry_list, exit_list, current_position, ti, tpc>>

vars == <<zzvars, tevars>>

\* ------------------------------------------------------------ helpers

\* The double comparison `num / den - 1 >= eps` of zigzag.c, for den > 0 and
\* eps the rational eps[1] / eps[2] with eps[2] > 0, in exact arithmetic.
\* Prices are small integers and every epsilon drawn is dyadic, so the
\* quotient at the threshold is exactly representable and the rounding of
\* the double division cannot move a quotient across it.
RatioAtLeast(num, den, eps) == num * eps[2] >= (eps[1] + eps[2]) * den

\* Store with the index taken as 1-based: the cell after the one meant.
Store_OneBased(arr, idx, val) ==
    [k \in (DOMAIN arr) \cup {idx + 1} |->
        IF k = idx + 1 THEN val ELSE arr[k]]

\* A C store arr[idx] = val.  A store outside the array does not vanish:
\* it lands in a cell the array does not own, which shows as a domain that
\* is no longer 0..n-1.
Store(arr, idx, val) ==
    [k \in (DOMAIN arr) \cup {idx} |-> IF k = idx THEN val ELSE arr[k]]

\* zigzag.c 41-45: both output arrays are set to 0 over 0..n-1.
ZeroArray(n) == [k \in 0 .. n - 1 |-> 0]

\* zigzag.c 73: the upward Phase-A test, h = highs[i], cl = candidate_low.
UpTrigger(h, cl, eps) == RatioAtLeast(h, cl, eps)

\* The downward test on the absolute difference candidate_high - lows[i],
\* as the comment of zigzag.c 89-90 words it, instead of the ratio.
DownTrigger_AbsoluteDifference(ch, l, eps) == (ch - l) * eps[2] >= eps[1]

\* zigzag.c 91: the downward Phase-A test, ch = candidate_high, l = lows[i].
DownTrigger(ch, l, eps) == RatioAtLeast(ch, l, eps)

\* zigzag.c 118: reversal test in an uptrend, lev = last_extreme_value.
ReversalDown(lev, l, eps) == RatioAtLeast(lev, l, eps)

\* zigzag.c 132: reversal test in a downtrend.
ReversalUp(h, lev, eps) == RatioAtLeast(h, lev, eps)

\* ------------------------------------------------ calculate_zigzag

Prices == 1 .. MaxPrice

\* The epsilon values drawn: the default 0.5 (zigzag.c 8) and 1.0.
Epsilons == {<<1, 2>>, <<1, 1>>}

\* The frozen state of enumerate_trades while calculate_zigzag runs.
TradesIdle ==
    /\ entry_data = <<>> /\ exit_data = <<>>
    /\ skip_first = 0 /\ entry_len = 0 /\ exit_len = 0
    /\ entry_list = <<>> /\ exit_list = <<>>
    /\ current_position = 0 /\ ti = 0 /\ tpc = "idle"

\* The call: 1-D arrays of equal length n >= 1 of positive prices with
\* highs[k] >= lows[k], and epsilon > 0.  Nothing of the body has run.
InitZigZag ==
    /\ length \in 1 .. MaxLen
    /\ highs \in [0 .. length - 1 -> Prices]
    /\ lows \in [0 .. length - 1 -> Prices]
    /\ \A k \in 0 .. length - 1 : lows[k] <= highs[k]
    /\ epsilon \in Epsilons
    /\ markers_data = <<>> /\ turning_points_data = <<>>
    /\ direction = 0 /\ last_extreme_index = 0 /\ last_extreme_value = 0
    /\ candidate_low_index = 0 /\ candidate_high_index = 0
    /\ candidate_low = 0 /\ candidate_high = 0
    /\ trend_detected = 0 /\ i = 0 /\ pc = "entry"

\* The values a read past the end of a double buffer may give: whatever
\* the memory holds, here any price or 0.
Garbage == 0 .. MaxPrice

\* A C read arr[idx]: the cell when the array owns it, else undefined
\* behaviour, one of the values the memory may hold.
ReadAt(arr, idx) == IF idx \in DOMAIN arr THEN {arr[idx]} ELSE Garbage

\* zigzag.c 25-30: the two lengths differ (ValueError, NULL returned).
LengthsDiffer(lh, ll) == lh # ll

\* zigzag.c 20-59: reject arrays of different lengths; else allocate and
\* zero the outputs, seed the candidates from index 0 (read without any
\* test of the length) and start the pre-scan at i = 1.  length is
\* length_highs; epsilon is not examined.
Begin ==
    /\ pc = "entry"
    /\ IF LengthsDiffer(length, Cardinality(DOMAIN lows))
       THEN /\ pc' = "error"
            /\ UNCHANGED <<markers_data, turning_points_data, direction,
                           last_extreme_index, last_extreme_value,
                           candidate_low_index, candidate_high_index,
                           candidate_low, candidate_high, trend_detected, i>>
       ELSE /\ markers_data' = ZeroArray(length)
            /\ turning_points_data' = ZeroArray(length)
            /\ direction' = 0
            /\ last_extreme_index' = 0
            /\ last_extreme_value' = 0
            /\ candidate_low_index' = 0
            /\ candidate_high_index' = 0
            /\ candidate_low' \in ReadAt(lows, 0)
            /\ candidate_high' \in ReadAt(highs, 0)
            /\ trend_detected' = 0
            /\ i' = 1
            /\ pc' = "prescan"
    /\ UNCHANGED <<highs, lows, epsilon, length>>
    /\ UNCHANGED tevars

\* zigzag.c 74-86: the upward trigger fired at index idx.  The trough is
\* marked at the candidate low, the confirmation at idx, and the extreme
\* tracked from here on is the candidate high.
ConfirmUp(m, t, cli, cl, chi, ch, idx) ==
    [markers |-> Store(m, cli, -1),
     turning |-> Store(t, idx, 1),
     trend |-> 1,
     direction |-> 1,
     lei |-> chi,
     lev |-> ch]

\* zigzag.c 92-104: the downward trigger fired at index idx.  The peak and
\* the confirmation are both marked at the candidate high, and the extreme
\* tracked from here on is the candidate low.
ConfirmDown(m, t, cli, cl, chi, ch, idx) ==
    [markers |-> Store(m, chi, 1),
     turning |-> Store(t, chi, -1),
     trend |-> -1,
     direction |-> -1,
     lei |-> cli,
     lev |-> cl]

\* The downward test is made first, so it wins when both conditions hold.
TakesUp_DownFirst(up, down) == up /\ ~down

\* zigzag.c 73, 88-91: the upward test is made first and leaves the loop, so
\* the upward branch is taken whenever its condition holds, whatever the
\* downward one says.
TakesUp(up, down) == up

\* zigzag.c 60-107: one iteration of the pre-scan loop.
PreScanStep ==
    /\ pc = "prescan"
    /\ i < length
    /\ LET lowMoves == lows[i] < candidate_low
           highMoves == highs[i] > candidate_high
           cl == IF lowMoves THEN lows[i] ELSE candidate_low
           cli == IF lowMoves THEN i ELSE candidate_low_index
           ch == IF highMoves THEN highs[i] ELSE candidate_high
           chi == IF highMoves THEN i ELSE candidate_high_index
           up == UpTrigger(highs[i], cl, epsilon)
           down == DownTrigger(ch, lows[i], epsilon)
           r == IF TakesUp(up, down)
                THEN ConfirmUp(markers_data, turning_points_data,
                               cli, cl, chi, ch, i)
                ELSE ConfirmDown(markers_data, turning_points_data,
                                 cli, cl, chi, ch, i)
       IN  /\ candidate_low' = cl
           /\ candidate_low_index' = cli
           /\ candidate_high' = ch
           /\ candidate_high_index' = chi
           /\ IF up \/ down
              THEN /\ trend_detected' = r.trend
                   /\ direction' = r.direction
                   /\ markers_data' = r.markers
                   /\ turning_points_data' = r.turning
                   /\ last_extreme_index' = r.lei
                   /\ last_extreme_value' = r.lev
                   /\ i' = i
                   /\ pc' = "check"
              ELSE /\ i' = i + 1
                   /\ UNCHANGED <<trend_detected, direction, markers_data,
                                  turning_points_data, last_extreme_index,
                                  last_extreme_value, pc>>
    /\ UNCHANGED <<highs, lows, epsilon, length>>
    /\ UNCHANGED tevars

\* zigzag.c 109-115: after the pre-scan (left by break, or run to the end):
\* return the zero arrays when no trend was detected, else enter the main
\* loop at i + 1.
TrendCheck ==
    /\ \/ pc = "check"
       \/ pc = "prescan" /\ i >= length
    /\ IF trend_detected = 0
       THEN pc' = "done" /\ i' = i
       ELSE pc' = "main" /\ i' = i + 1
    /\ UNCHANGED <<highs, lows, epsilon, length, markers_data,
                   turning_points_data, direction, last_extreme_index,
                   last_extreme_value, candidate_low_index,
                   candidate_high_index, candidate_low, candidate_high,
                   trend_detected>>
    /\ UNCHANGED tevars

\* The uptrend body with the two tests in the other order: a higher high
\* moves the tracked extreme before the reversal is tested.
UpBranch_ExtendsFirst(m, t, lei, lev, idx) ==
    LET ext == highs[idx] > lev
        lei0 == IF ext THEN idx ELSE lei
        lev0 == IF ext THEN highs[idx] ELSE lev
        rev == ReversalDown(lev0, lows[idx], epsilon)
    IN  [markers |-> IF rev THEN Store(m, lei0, 1) ELSE m,
         turning |-> IF rev THEN Store(t, idx, -1) ELSE t,
         direction |-> IF rev THEN -1 ELSE 1,
         lei |-> IF rev THEN idx ELSE lei0,
         lev |-> IF rev THEN highs[idx] ELSE lev0]

\* The uptrend body with a reversal that records the turning point but
\* leaves the direction up.
UpBranch_KeepsDirection(m, t, lei, lev, idx) ==
    LET rev == ReversalDown(lev, lows[idx], epsilon)
        lei1 == IF rev THEN idx ELSE lei
        lev1 == IF rev THEN highs[idx] ELSE lev
        ext == highs[idx] > lev1
    IN  [markers |-> IF rev THEN Store(m, lei, 1) ELSE m,
         turning |-> IF rev THEN Store(t, idx, -1) ELSE t,
         direction |-> 1,
         lei |-> IF ext THEN idx ELSE lei1,
         lev |-> IF ext THEN highs[idx] ELSE lev1]

\* The uptrend body with the value after a reversal read at the old extreme
\* index instead of at idx.
UpBranch_ValueFromOldExtreme(m, t, lei, lev, idx) ==
    LET rev == ReversalDown(lev, lows[idx], epsilon)
        lei1 == IF rev THEN idx ELSE lei
        lev1 == IF rev THEN highs[lei] ELSE lev
        ext == highs[idx] > lev1
    IN  [markers |-> IF rev THEN Store(m, lei, 1) ELSE m,
         turning |-> IF rev THEN Store(t, idx, -1) ELSE t,
         direction |-> IF rev THEN -1 ELSE 1,
         lei |-> IF ext THEN idx ELSE lei1,
         lev |-> IF ext THEN highs[idx] ELSE lev1]

\* zigzag.c 116-129: the body of the main loop at index idx in an uptrend.
\* On a reversal the tracked extreme is marked as a peak, the confirmation
\* is recorded at idx, and the tracked extreme becomes index idx with the
\* value highs[idx]; then a higher high moves the tracked extreme.
UpBranch(m, t, lei, lev, idx) ==
    LET rev == ReversalDown(lev, lows[idx], epsilon)
        lei1 == IF rev THEN idx ELSE lei
        lev1 == IF rev THEN highs[idx] ELSE lev
        ext == highs[idx] > lev1
    IN  [markers |-> IF rev THEN Store(m, lei, 1) ELSE m,
         turning |-> IF rev THEN Store(t, idx, -1) ELSE t,
         direction |-> IF rev THEN -1 ELSE 1,
         lei |-> IF ext THEN idx ELSE lei1,
         lev |-> IF ext THEN highs[idx] ELSE lev1]

\* zigzag.c 130-146: the body of the main loop at index idx in a downtrend,
\* the mirror image: the value after a reversal is lows[idx].
DownBranch(m, t, lei, lev, idx) ==
    LET rev == ReversalUp(highs[idx], lev, epsilon)
        lei1 == IF rev THEN idx ELSE lei
        lev1 == IF rev THEN lows[idx] ELSE lev
        ext == lows[idx] < lev1
    IN  [markers |-> IF rev THEN Store(m, lei, -1) ELSE m,
         turning |-> IF rev THEN Store(t, idx, 1) ELSE t,
         direction |-> IF rev THEN 1 ELSE -1,
         lei |-> IF ext THEN idx ELSE lei1,
         lev |-> IF ext THEN lows[idx] ELSE lev1]

\* zigzag.c 115-147: one iteration of the main loop.
MainStep ==
    /\ pc = "main"
    /\ i < length
    /\ LET r == IF direction = 1
                THEN UpBranch(markers_data, turning_points_data,
                              last_extreme_index, last_extreme_value, i)
                ELSE IF direction = -1
                THEN DownBranch(markers_data, turning_points_data,
                                last_extreme_index, last_extreme_value, i)
                ELSE [markers |-> markers_data,
                      turning |-> turning_points_data,
                      direction |-> direction,
                      lei |-> last_extreme_index,
                      lev |-> last_extreme_value]
       IN  /\ markers_data' = r.markers
           /\ turning_points_data' = r.turning
           /\ direction' = r.direction
           /\ last_extreme_index' = r.lei
           /\ last_extreme_value' = r.lev
    /\ i' = i + 1
    /\ UNCHANGED <<highs, lows, epsilon, length, candidate_low_index,
                   candidate_high_index, candidate_low, candidate_high,
                   trend_detected, pc>>
    /\ UNCHANGED tevars

\* The final extreme marked as the commented-out lines zigzag.c 150-156
\* would mark it.
FinalMarkers_Finalized(m, d, lei) == Store(m, lei, IF d = 1 THEN -1 ELSE 1)

\* zigzag.c 149-156: the marking of the final extreme is commented out;
\* the markers are returned as the main loop left them.
FinalMarkers(m, d, lei) == m

\* zigzag.c 149-158: the main loop is over, the two arrays are returned.
Return ==
    /\ pc = "main"
    /\ i >= length
    /\ markers_data' = FinalMarkers(markers_data, direction, last_extreme_index)
    /\ pc' = "done"
    /\ UNCHANGED <<highs, lows, epsilon, length,
                   turning_points_data, direction, last_extreme_index,
                   last_extreme_value, candidate_low_index,
                   candidate_high_index, candidate_low, candidate_high,
                   trend_detected, i>>
    /\ UNCHANGED tevars

Init == InitZigZag /\ TradesIdle

Next ==
    \/ Begin
    \/ PreScanStep
    \/ TrendCheck
    \/ MainStep
    \/ Return

Spec == Init /\ [][Next]_vars

\* The same call on the series of length MaxLen + 1, with the default
\* epsilon only.  Five bars are the shortest series on which the main loop
\* confirms a reversal, extends the new run and confirms the next reversal.
InitLong ==
    /\ length = MaxLen + 1
    /\ highs \in [0 .. length - 1 -> Prices]
    /\ lows \in [0 .. length - 1 -> Prices]
    /\ \A k \in 0 .. length - 1 : lows[k] <= highs[k]
    /\ epsilon = <<1, 2>>
    /\ markers_data = <<>> /\ turning_points_data = <<>>
    /\ direction = 0 /\ last_extreme_index = 0 /\ last_extreme_value = 0
    /\ candidate_low_index = 0 /\ candidate_high_index = 0
    /\ candidate_low = 0 /\ candidate_high = 0
    /\ trend_detected = 0 /\ i = 0 /\ pc = "entry"
    /\ TradesIdle

SpecLong == InitLong /\ [][Next]_vars

\* Epsilon values of every sign: negative, zero, and the default.
AnyEpsilons == {<<-1, 2>>, <<0, 1>>, <<1, 2>>}

\* The call on well-formed arrays with an epsilon of any sign.
InitAnyEpsilon ==
    /\ length \in 1 .. MaxLen
    /\ highs \in [0 .. length - 1 -> Prices]
    /\ lows \in [0 .. length - 1 -> Prices]
    /\ \A k \in 0 .. length - 1 : lows[k] <= highs[k]
    /\ epsilon \in AnyEpsilons
    /\ markers_data = <<>> /\ turning_points_data = <<>>
    /\ direction = 0 /\ last_extreme_index = 0 /\ last_extreme_value = 0
    /\ candidate_low_index = 0 /\ candidate_high_index = 0
    /\ candidate_low = 0 /\ candidate_high = 0
    /\ trend_detected = 0 /\ i = 0 /\ pc = "entry"
    /\ TradesIdle

SpecAnyEpsilon == InitAnyEpsilon /\ [][Next]_vars

\* The call on 1-D arrays of any two lengths below MaxLen, the empty ones
\* included, with epsilon > 0.  length is length_highs.
InitAnyLengths ==
    /\ length \in 0 .. MaxLen - 1
    /\ highs \in [0 .. length - 1 -> Prices]
    /\ \E ll \in 0 .. MaxLen - 1 :
           /\ lows \in [0 .. ll - 1 -> Prices]
           /\ \A k \in 0 .. length - 1 : k < ll => lows[k] <= highs[k]
    /\ epsilon \in Epsilons
    /\ markers_data = <<>> /\ turning_points_data = <<>>
    /\ direction = 0 /\ last_extreme_index = 0 /\ last_extreme_value = 0
    /\ candidate_low_index = 0 /\ candidate_high_index = 0
    /\ candidate_low = 0 /\ candidate_high = 0
    /\ trend_detected = 0 /\ i = 0 /\ pc = "entry"
    /\ TradesIdle

SpecAnyLengths == InitAnyLengths /\ [][Next]_vars

\* ------------------------------------------------ enumerate_trades

\* The frozen state of calculate_zigzag while enumerate_trades runs.
ZigZagIdle ==
    /\ highs = <<>> /\ lows = <<>> /\ epsilon = <<1, 2>> /\ length = 0
    /\ markers_data = <<>> /\ turning_points_data = <<>>
    /\ direction = 0 /\ last_extreme_index = 0 /\ last_extreme_value = 0
    /\ candidate_low_index = 0 /\ candidate_high_index = 0
    /\ candidate_low = 0 /\ candidate_high = 0
    /\ trend_detected = 0 /\ i = 0 /\ pc = "idle"

\* The call: two 0/1 masks, possibly of different lengths, and any
\* skip_first from -1 to MaxMask.  Nothing of the body has run.
InitTrades ==
    /\ entry_len \in 0 .. MaxMask
    /\ exit_len \in 0 .. MaxMask
    /\ entry_data \in [0 .. entry_len - 1 -> {0, 1}]
    /\ exit_data \in [0 .. exit_len - 1 -> {0, 1}]
    /\ skip_first \in -1 .. MaxMask
    /\ entry_list = <<>> /\ exit_list = <<>>
    /\ current_position = 0 /\ ti = 0 /\ tpc = "entry"

\* The first data point taken for the last.
FinalExitIndex_AtZero(len) == 0

\* enumerate_trades.c 62: the index of the synthesized final exit.
FinalExitIndex(len) == len - 1

\* The lists returned as the scan left them, with no final exit.
Finalize_NoFinalExit(entries, exits, len) == exits

\* The last data point appended as an exit whatever the two lengths are.
Finalize_AlwaysFinalExit(entries, exits, len) ==
    Append(exits, FinalExitIndex(len))

\* enumerate_trades.c 60-63: with more entries than exits, the last data
\* point is appended as the exit.
Finalize(entries, exits, len) ==
    IF Len(entries) > Len(exits)
    THEN Append(exits, FinalExitIndex(len))
    ELSE exits

\* The range test with > for >=: skip_first = length is let through.
SkipFirstInvalid_OffByOne(skip, len) == skip > len \/ skip < 0

\* enumerate_trades.c 32: skip_first is outside [0, length).
SkipFirstInvalid(skip, len) == skip >= len \/ skip < 0

\* enumerate_trades.c 24-45: the two argument checks (each raises
\* ValueError and returns NULL), then the empty lists, the flat position
\* and the scan index at skip_first.
CheckArgs ==
    /\ tpc = "entry"
    /\ IF entry_len # exit_len
       THEN /\ tpc' = "error"
            /\ UNCHANGED <<entry_list, exit_list, current_position, ti>>
       ELSE IF SkipFirstInvalid(skip_first, entry_len)
       THEN /\ tpc' = "error"
            /\ UNCHANGED <<entry_list, exit_list, current_position, ti>>
       ELSE /\ entry_list' = <<>>
            /\ exit_list' = <<>>
            /\ current_position' = 0
            /\ ti' = skip_first
            /\ tpc' = "scan"
    /\ UNCHANGED <<entry_data, exit_data, skip_first, entry_len, exit_len>>
    /\ UNCHANGED zzvars

\* The loop body with two independent ifs instead of if / else if: after an
\* exit at idx the entry test runs on the position just made flat.
ScanBody_TwoIfs(entries, exits, pos, idx) ==
    LET closes == pos = 1 /\ exit_data[idx] = 1
        pos1 == IF closes THEN 0 ELSE pos
        opens == pos1 = 0 /\ entry_data[idx] = 1
    IN  [entries |-> IF opens THEN Append(entries, idx) ELSE entries,
         exits |-> IF closes THEN Append(exits, idx) ELSE exits,
         position |-> IF opens THEN 1 ELSE pos1]

\* The exit branch without its test of current_position == 1.
ScanBody_ExitWhileFlat(entries, exits, pos, idx) ==
    IF exit_data[idx] = 1
    THEN [entries |-> entries, exits |-> Append(exits, idx), position |-> 0]
    ELSE IF pos = 0 /\ entry_data[idx] = 1
    THEN [entries |-> Append(entries, idx), exits |-> exits, position |-> 1]
    ELSE [entries |-> entries, exits |-> exits, position |-> pos]

\* enumerate_trades.c 49-57: the body of the scan loop at index idx: close
\* the position on an exit flag, else open one on an entry flag.
ScanBody(entries, exits, pos, idx) ==
    IF pos = 1 /\ exit_data[idx] = 1
    THEN [entries |-> entries, exits |-> Append(exits, idx), position |-> 0]
    ELSE IF pos = 0 /\ entry_data[idx] = 1
    THEN [entries |-> Append(entries, idx), exits |-> exits, position |-> 1]
    ELSE [entries |-> entries, exits |-> exits, position |-> pos]

\* enumerate_trades.c 48-58: one iteration of the scan.
ScanStep ==
    /\ tpc = "scan"
    /\ ti < entry_len
    /\ LET r == ScanBody(entry_list, exit_list, current_position, ti)
       IN  /\ entry_list' = r.entries
           /\ exit_list' = r.exits
           /\ current_position' = r.position
    /\ ti' = ti + 1
    /\ UNCHANGED <<entry_data, exit_data, skip_first, entry_len, exit_len, tpc>>
    /\ UNCHANGED zzvars

\* enumerate_trades.c 60-66: the final exit of a position still open, and
\* the return of the two lists.
Finish ==
    /\ tpc = "scan"
    /\ ti >= entry_len
    /\ exit_list' = Finalize(entry_list, exit_list, entry_len)
    /\ tpc' = "done"
    /\ UNCHANGED <<entry_data, exit_data, skip_first, entry_len, exit_len,
                   entry_list, current_position, ti>>
    /\ UNCHANGED zzvars

InitTradesCall == InitTrades /\ ZigZagIdle

NextTrades ==
    \/ CheckArgs
    \/ ScanStep
    \/ Finish

SpecTrades == InitTradesCall /\ [][NextTrades]_vars

\* The same call on two masks of one length, up to MaxMask + 2: six
\* positions hold two trades and a position left open at the end.
InitTradesLong ==
    /\ entry_len \in 0 .. MaxMask + 2
    /\ exit_len = entry_len
    /\ entry_data \in [0 .. entry_len - 1 -> {0, 1}]
    /\ exit_data \in [0 .. exit_len - 1 -> {0, 1}]
    /\ skip_first \in -1 .. entry_len
    /\ entry_list = <<>> /\ exit_list = <<>>
    /\ current_position = 0 /\ ti = 0 /\ tpc = "entry"
    /\ ZigZagIdle

SpecTradesLong == InitTradesLong /\ [][NextTrades]_vars

\* ---------------------------------------------- properties: zigzag

\* The indices of the nonzero entries of markers.
Marked == {k \in DOMAIN markers_data : markers_data[k] # 0}

\* a and b are nonzero entries of markers with no nonzero entry between.
AdjacentMarks(a, b) ==
    /\ a \in Marked /\ b \in Marked /\ a < b
    /\ \A k \in (a + 1) .. (b - 1) : k \notin Marked

\* The least low and the greatest high of the bars 0..k of the input.
MinLowUpTo(k) ==
    CHOOSE v \in {lows[j] : j \in 0 .. k} : \A j \in 0 .. k : v <= lows[j]

MaxHighUpTo(k) ==
    CHOOSE v \in {highs[j] : j \in 0 .. k} : \A j \in 0 .. k : v >= highs[j]

\* The two Phase-A conditions at index k, read off the input alone.
UpCondition(k) == highs[k] * epsilon[2] >= (epsilon[1] + epsilon[2]) * MinLowUpTo(k)

DownCondition(k) == MaxHighUpTo(k) * epsilon[2] >= (epsilon[1] + epsilon[2]) * lows[k]

\* No index of 1..N-1 satisfies either Phase-A condition.
NoTrigger == \A k \in 1 .. length - 1 : ~UpCondition(k) /\ ~DownCondition(k)

\* The call has returned.
Returned == pc = "done"

\* C1: in the returned markers, a peak at p and a trough at t that are
\* adjacent nonzero entries are separated by a relative move of at least
\* epsilon: highs[p] / lows[t] - 1 >= epsilon.
C1_AdjacentExtremesMoveEpsilon ==
    Returned =>
        \A a, b \in DOMAIN markers_data :
            AdjacentMarks(a, b) =>
                /\ (markers_data[a] = 1 /\ markers_data[b] = -1) =>
                       highs[a] * epsilon[2] >= (epsilon[1] + epsilon[2]) * lows[b]
                /\ (markers_data[a] = -1 /\ markers_data[b] = 1) =>
                       highs[b] * epsilon[2] >= (epsilon[1] + epsilon[2]) * lows[a]

\* C2: in the returned markers, successive nonzero entries alternate in
\* sign: never two troughs or two peaks in a row.
C2_MarkersAlternate ==
    Returned =>
        \A a, b \in DOMAIN markers_data :
            AdjacentMarks(a, b) => markers_data[a] # markers_data[b]

C4_OutputsWellFormed ==
    pc # "entry" =>
        /\ DOMAIN markers_data = 0 .. length - 1
        /\ DOMAIN turning_points_data = 0 .. length - 1
        /\ \A k \in 0 .. length - 1 :
               /\ markers_data[k] \in {-1, 0, 1}
               /\ turning_points_data[k] \in {-1, 0, 1}

\* C4 witness: a call returned with a peak, a trough and confirmations of
\* both signs written, one of them in the last cell.
C4_BothSignsWritten ==
    /\ Returned
    /\ \E a, b \in DOMAIN markers_data :
           markers_data[a] = 1 /\ markers_data[b] = -1
    /\ \E a, b \in DOMAIN turning_points_data :
           turning_points_data[a] = 1 /\ turning_points_data[b] = -1
    /\ turning_points_data[length - 1] # 0

\* Some index of 1..N-1 satisfies a Phase-A condition, and the first one.
HasTrigger == ~NoTrigger

FirstTrigger ==
    CHOOSE k \in 1 .. length - 1 :
        /\ UpCondition(k) \/ DownCondition(k)
        /\ \A j \in 1 .. k - 1 : ~UpCondition(j) /\ ~DownCondition(j)

\* The upward test is made first, so the upward trigger is the one that
\* fires whenever its condition holds at the first index; the downward one
\* fires when only its condition holds there.
UpFirst == HasTrigger /\ UpCondition(FirstTrigger)

DownFirst == HasTrigger /\ ~UpCondition(FirstTrigger)

\* The earliest index of 0..k attaining the least low, the greatest high.
EarliestMinLow(k) ==
    CHOOSE j \in 0 .. k :
        lows[j] = MinLowUpTo(k) /\ \A x \in 0 .. j - 1 : lows[x] # lows[j]

EarliestMaxHigh(k) ==
    CHOOSE j \in 0 .. k :
        highs[j] = MaxHighUpTo(k) /\ \A x \in 0 .. j - 1 : highs[x] # highs[j]

\* C5: when the first trigger to fire is the upward one, at index i, the
\* returned arrays have markers[t] = -1 at the earliest index t of the
\* least low of 0..i, and turningPoints[i] = 1.
C5_UpTriggerMarksTrough ==
    (Returned /\ UpFirst) =>
        /\ markers_data[EarliestMinLow(FirstTrigger)] = -1
        /\ turning_points_data[FirstTrigger] = 1

\* C6: when the first trigger to fire is the downward one, at index i, the
\* returned arrays have markers[p] = 1 and turningPoints[p] = -1 at the
\* earliest index p of the greatest high of 0..i, and turningPoints[i] = 0.
C6_DownTriggerMarksPeak ==
    (Returned /\ DownFirst) =>
        /\ markers_data[EarliestMaxHigh(FirstTrigger)] = 1
        /\ turning_points_data[EarliestMaxHigh(FirstTrigger)] = -1
        /\ turning_points_data[FirstTrigger] = 0

\* C7: when the scan ends after a trend was detected, the extreme still
\* tracked is not marked: markers[lastExtremeIndex] = 0 on return.
C7_OpenExtremeUnmarked ==
    (Returned /\ trend_detected # 0) => markers_data[last_extreme_index] = 0

\* The index Phase A marked: the candidate low after an upward trigger, the
\* candidate high after a downward one.
PhaseAMarkIndex ==
    IF trend_detected = 1 THEN candidate_low_index ELSE candidate_high_index

\* C7 (amended): when the scan ends after a trend was detected, the extreme
\* still tracked is not marked as an extreme of the open run:
\* markers[lastExtremeIndex] is never 1 in an uptrend nor -1 in a
\* downtrend.  It is 0, unless no reversal followed Phase A and
\* lastExtremeIndex is the index Phase A marked, where the Phase-A mark
\* (the opposite sign) stands.
C7_OpenExtremeNotFinalized ==
    (Returned /\ trend_detected # 0) =>
        /\ markers_data[last_extreme_index] # direction
        /\ markers_data[last_extreme_index] # 0 =>
               /\ last_extreme_index = PhaseAMarkIndex
               /\ direction = trend_detected
               /\ markers_data[last_extreme_index] = -trend_detected

\* C7 witness: a call returned after a reversal in the main loop, with a
\* tracked extreme that moved past the reversal index.
C7_ReturnedAfterReversal ==
    /\ Returned /\ trend_detected # 0 /\ direction # trend_detected
    /\ \E k \in DOMAIN turning_points_data :
           /\ k > FirstTrigger
           /\ turning_points_data[k] # 0
           /\ last_extreme_index > k

\* --------------------------------------- properties: enumerate_trades

\* The call has returned its two lists.
TradesReturned == tpc = "done"

\* C8: for equal-length masks and skipFirst in [0, N), the returned lists
\* have the same length.
C8_SameLength == TradesReturned => Len(entry_list) = Len(exit_list)

\* C8 witness: a call returned two trades, the second closed by the final
\* exit of a position still open at the end of the scan.
C8_ReturnedWithOpenPosition ==
    /\ TradesReturned /\ current_position = 1 /\ Len(entry_list) = 2

\* C9: for every k, exits[k] > entries[k] strictly, the pair closed by the
\* final exit at N-1 included.
C9_ExitAfterEntry ==
    TradesReturned =>
        \A k \in 1 .. Len(entry_list) :
            k <= Len(exit_list) => exit_list[k] > entry_list[k]

\* C10: the returned entries are strictly increasing and the returned
\* exits are strictly increasing, the final exit included.
C10_StrictlyIncreasing ==
    TradesReturned =>
        /\ \A k \in 1 .. Len(entry_list) - 1 : entry_list[k] < entry_list[k + 1]
        /\ \A k \in 1 .. Len(exit_list) - 1 : exit_list[k] < exit_list[k + 1]

\* C10 witness: a call returned two exits, the second one the final exit.
C10_TwoExitsLastFinal ==
    /\ TradesReturned /\ current_position = 1
    /\ Len(exit_list) = 2 /\ exit_list[2] = entry_len - 1

\* C11: the final exit N-1 is appended exactly when the scan ends with a
\* position open, which is when there is one more entry than exits; when
\* the scan ends flat nothing is appended; no entry is ever added after the
\* scan.  On entry=[0,1,0,0,1,0], exit=[0,0,1,0,0,0], skipFirst=0 the
\* result is entries=[1,4], exits=[2,5].
C11_FinalExitIffOpen ==
    /\ [][(tpc = "scan" /\ tpc' = "done") =>
            /\ (current_position = 1) <=> (Len(entry_list) = Len(exit_list) + 1)
            /\ (current_position = 0) <=> (Len(entry_list) = Len(exit_list))
            /\ current_position = 1 =>
                   exit_list' = Append(exit_list, entry_len - 1)
            /\ current_position = 0 => exit_list' = exit_list
            /\ entry_list' = entry_list]_vars
    /\ [](( /\ TradesReturned
            /\ entry_data = [k \in 0 .. 5 |-> IF k \in {1, 4} THEN 1 ELSE 0]
            /\ exit_data = [k \in 0 .. 5 |-> IF k = 2 THEN 1 ELSE 0]
            /\ skip_first = 0)
           => (entry_list = <<1, 4>> /\ exit_list = <<2, 5>>))

\* C11 witness: the call on the example input has returned.
C11_ExampleReturned ==
    /\ TradesReturned
    /\ entry_data = [k \in 0 .. 5 |-> IF k \in {1, 4} THEN 1 ELSE 0]
    /\ exit_data = [k \in 0 .. 5 |-> IF k = 2 THEN 1 ELSE 0]
    /\ skip_first = 0
    /\ exit_list = <<2, 5>>

\* The arguments enumerate_trades must reject.
TradesArgsInvalid ==
    entry_len # exit_len \/ skip_first < 0 \/ skip_first >= entry_len

\* C12: a call with masks of different lengths, or with skipFirst outside
\* [0, N), ends in the error outcome: it never scans an index and never
\* returns lists.
C12_InvalidArgsRejected ==
    TradesArgsInvalid =>
        /\ tpc \in {"entry", "error"}
        /\ ti = 0 /\ entry_list = <<>> /\ exit_list = <<>>

\* C12 witness: a call with equal masks and skipFirst = N has ended in the
\* error outcome.
C12_SkipFirstAtLengthRejected ==
    tpc = "error" /\ entry_len = exit_len /\ entry_len > 0
        /\ skip_first = entry_len

\* C17: one iteration of the scan appends its index to at most one of the
\* two lists.  In position with both flags set at i, i goes to exits only,
\* the position becomes flat and no entry is recorded at i; flat with both
\* flags set, i goes to entries only.
C17_OneListPerIndex ==
    [][(tpc = "scan" /\ ti' = ti + 1) =>
         LET both == entry_data[ti] = 1 /\ exit_data[ti] = 1
         IN  /\ entry_list' = entry_list \/ exit_list' = exit_list
             /\ entry_list' \in {entry_list, Append(entry_list, ti)}
             /\ exit_list' \in {exit_list, Append(exit_list, ti)}
             /\ (current_position = 1 /\ both) =>
                    /\ exit_list' = Append(exit_list, ti)
                    /\ entry_list' = entry_list
                    /\ current_position' = 0
             /\ (current_position = 0 /\ both) =>
                    /\ entry_list' = Append(entry_list, ti)
                    /\ exit_list' = exit_list
                    /\ current_position' = 1]_vars

\* C17 witness: the scan has just passed an index with both flags set that
\* closed a position, and is flat.
C17_ExitTookPrecedence ==
    /\ tpc = "scan" /\ ti >= 1 /\ current_position = 0
    /\ entry_data[ti - 1] = 1 /\ exit_data[ti - 1] = 1
    /\ Len(exit_list) >= 1 /\ exit_list[Len(exit_list)] = ti - 1

\* C18: in every state of the scan, len(entries) - len(exits) is the
\* position flag (0 flat, 1 in position); during the scan and on return
\* exits never outnumber entries and every exit has its entry, recorded at
\* an index not after it.
C18_LengthsTrackPosition ==
    /\ tpc = "scan" =>
           /\ current_position \in {0, 1}
           /\ Len(entry_list) - Len(exit_list) = current_position
           /\ \A k \in 1 .. Len(exit_list) : entry_list[k] < exit_list[k]
    /\ tpc \in {"scan", "done"} =>
           /\ Len(exit_list) <= Len(entry_list)
           /\ \A k \in 1 .. Len(exit_list) : entry_list[k] <= exit_list[k]

\* C18 witness: the scan is in position after a first trade was closed.
C18_InPositionAfterTrade ==
    tpc = "scan" /\ current_position = 1 /\ Len(exit_list) >= 1

\* C13: a call with epsilon <= 0 is rejected with an error outcome before
\* any scanning: it never gets past the entry, and returns no arrays.
C13_NonPositiveEpsilonRejected ==
    epsilon[1] <= 0 => pc \in {"entry", "error"}

\* C14: a call whose highs and lows differ in length, or whose length is 0,
\* is rejected as an input error before any element is read: it never gets
\* past the entry to the reads of index 0.
C14_BadLengthsRejected ==
    (length # Cardinality(DOMAIN lows) \/ length = 0) =>
        pc \in {"entry", "error"}

\* Both Phase-A conditions hold at the index where the pre-scan stopped.
BothTriggers ==
    /\ UpTrigger(highs[i], candidate_low, epsilon)
    /\ DownTrigger(candidate_high, lows[i], epsilon)

\* C15: the two Phase-A trigger conditions are mutually exclusive: at the
\* index where the pre-scan stops, with candidate_low and candidate_high
\* already updated for it, the upward and the downward condition do not
\* both hold (at every index scanned before it neither holds).
C15_TriggersExclusive ==
    pc = "check" => ~BothTriggers

\* C15, amended: the conditions can hold together, and the order of the
\* tests decides.  Where the pre-scan stops, an upward condition that holds
\* gives an uptrend confirmed at i, whether or not the downward one holds
\* too; a downtrend is detected only when the upward condition fails.
C15_UpTestedFirst ==
    pc = "check" =>
        LET up == UpTrigger(highs[i], candidate_low, epsilon)
            down == DownTrigger(candidate_high, lows[i], epsilon)
        IN  /\ up \/ down
            /\ up => /\ trend_detected = 1 /\ direction = 1
                     /\ turning_points_data[i] = 1
                     /\ markers_data[candidate_low_index] = -1
            /\ ~up => /\ trend_detected = -1 /\ direction = -1
                      /\ turning_points_data[candidate_high_index] = -1
                      /\ markers_data[candidate_high_index] = 1

\* C15 witness: the pre-scan stopped at an index where both conditions hold
\* and the candidate high is older than the candidate low.
C15_BothTriggersHold ==
    /\ pc = "check" /\ BothTriggers
    /\ candidate_high_index < candidate_low_index

\* A main-loop step that flips the direction from d to -d.
Flip(d) == pc = "main" /\ direction = d /\ direction' = -d

\* C16: when a reversal is confirmed at index i while the tracked extreme is
\* at index e, the tracked extreme value after the step is the price at the
\* old extreme index e read from the opposite series: highs[e] after an
\* up-to-down flip, lows[e] after a down-to-up flip.
C16_ValueFromOldExtreme ==
    [][/\ Flip(1) => last_extreme_value' = highs[last_extreme_index]
       /\ Flip(-1) => last_extreme_value' = lows[last_extreme_index]]_vars

\* C16, amended: the step that confirms a reversal at index i marks the old
\* extreme index e and moves the tracked extreme to index i itself; the
\* value is read at the new index: highs[i] after an up-to-down flip,
\* lows[i] after a down-to-up flip.
C16_ValueFromConfirmationIndex ==
    [][/\ Flip(1) =>
             /\ markers_data' =
                    [markers_data EXCEPT ![last_extreme_index] = 1]
             /\ last_extreme_index' = i
             /\ last_extreme_value' = highs[i]
       /\ Flip(-1) =>
             /\ markers_data' =
                    [markers_data EXCEPT ![last_extreme_index] = -1]
             /\ last_extreme_index' = i
             /\ last_extreme_value' = lows[i]]_vars

\* C16 witness: the main loop has just confirmed a downward reversal at
\* index i - 1, and the tracked value highs[i - 1] differs from the high at
\* every marked peak, the old extreme index among them.
C16_FlippedAwayFromOldValue ==
    /\ pc = "main" /\ i - 1 > FirstTrigger
    /\ turning_points_data[i - 1] = -1
    /\ direction = -1
    /\ last_extreme_index = i - 1
    /\ last_extreme_value = highs[i - 1]
    /\ \E e \in 0 .. i - 2 : markers_data[e] = 1
    /\ \A e \in 0 .. i - 2 : markers_data[e] = 1 => highs[e] # highs[i - 1]

\* The indices that hold a turning point.
Turned == {k \in DOMAIN turning_points_data : turning_points_data[k] # 0}

\* Two turning points with no turning point between them.
AdjacentTurns(a, b) ==
    /\ a \in Turned /\ b \in Turned /\ a < b
    /\ \A k \in Turned : ~(a < k /\ k < b)

\* The turning point written last, which is the one at the highest index.
LastTurn == CHOOSE k \in Turned : \A j \in Turned : j <= k

\* C19: turning points are write-once and alternate.  Every step after the
\* allocation that changes turningPoints writes one nonzero value into one
\* cell that held 0, above every turning point written before, and the
\* direction changes at exactly these steps; successive nonzero entries
\* alternate in sign; and once a trend is detected the direction is nonzero
\* and equals the turning point written last.
C19_TurningPointsWriteOnce ==
    /\ [](/\ \A a, b \in Turned :
                AdjacentTurns(a, b) =>
                    turning_points_data[a] = -turning_points_data[b]
          /\ trend_detected # 0 =>
                /\ direction # 0
                /\ Turned # {}
                /\ direction = turning_points_data[LastTurn])
    /\ [][pc # "entry" =>
            /\ (direction' # direction) <=>
                   (turning_points_data' # turning_points_data)
            /\ turning_points_data' # turning_points_data =>
                   \E k \in DOMAIN turning_points_data :
                       /\ turning_points_data[k] = 0
                       /\ \A j \in Turned : j < k
                       /\ direction' # 0
                       /\ turning_points_data' =
                              [turning_points_data EXCEPT ![k] = direction']
         ]_vars

\* C19 witness: the call returned three turning points, the last one
\* written by a down-to-up flip of the main loop.
C19_ThreeTurnsReturned ==
    /\ Returned
    /\ Cardinality(Turned) >= 3
    /\ direction = 1

\* The indices at which the main loop has confirmed a reversal.
PhaseBTurns == {k \in Turned : k > FirstTrigger}

\* C20: every Phase-B confirmation lags its extreme.  The step of the main
\* loop that confirms a reversal at index i writes exactly one marker, at the
\* tracked index e, and e < i.  That index is at or above every index j at
\* which the main loop confirmed earlier, while the marker written at j was
\* below j: the marker indices of successive confirmations increase strictly.
C20_ConfirmationLagsExtreme ==
    [][\A d \in {1, -1} :
           Flip(d) =>
               /\ last_extreme_index < i
               /\ markers_data' =
                      [markers_data EXCEPT ![last_extreme_index] = d]
               /\ turning_points_data' =
                      [turning_points_data EXCEPT ![i] = -d]
               /\ \A j \in PhaseBTurns : j <= last_extreme_index /\ j < i
      ]_vars

\* C20 witness: the main loop has confirmed two reversals, the second one at
\* i - 1 with its marker below i - 1 and not below the first confirmation.
C20_TwoConfirmations ==
    /\ pc = "main"
    /\ i - 1 \in PhaseBTurns
    /\ \E j \in PhaseBTurns, e \in Marked :
           /\ j <= e /\ e < i - 1
           /\ markers_data[e] = -turning_points_data[i - 1]

=========================================================================
